---------------------------- MODULE Spec2Model ----------------------------
(***************************************************************************)
(* A model of timtamcam: TimTamCam.monitor_loop (the sampling loop and     *)
(* the detector), TimTamCam.alert (capture, one recovery, delivery),       *)
(* TimTamCam.record_gif / camera_check (the stream handle and the frame    *)
(* loop) and SlackBot.send_file / send_message (the Notifier).             *)
(*                                                                         *)
(* Weights are integers in tenths of a gram.  The number of Tim Tams       *)
(* taken (timtam_change, num_timtams) is an integer in hundredths.         *)
(***************************************************************************)
EXTENDS Integers, FiniteSets, Sequences, TLC

(***************************************************************************)
(* Program constants.                                                      *)
(***************************************************************************)
\* DELTA_WEIGHT = 10 (grams), in tenths of a gram
DELTA_WEIGHT == 100

\* TIMTAM_WEIGHT = 18.3 (grams), in tenths of a gram
TIMTAM_WEIGHT == 183

\* timtam_change >= 0.85, in hundredths
EventThreshold == 85

\* self.record_gif(4, 3): duration and fps
Duration == 4

Fps == 3

\* previous = None
NoBaseline == -1

(***************************************************************************)
(* Bounds of the model.                                                    *)
(***************************************************************************)
\* the scale reads multiples of WeightStep tenths of a gram: with 31 the
\* grid holds a drop of 15.5 g, the smallest one that rounds to 0.85
WeightStep == 31

\* the scale reads 0 .. MaxSteps * WeightStep
MaxSteps == 9

\* the stream reports a native rate of 0 .. MaxStreamFps frames per second
MaxStreamFps == 6

Weights == {k * WeightStep : k \in 0..MaxSteps}

\* datetime.now().hour: both sides of the two quiet-hours bounds, and the ends
Hours == {0, 4, 5, 17, 18, 23}

\* datetime.now().weekday(): Monday is 0; Friday, Saturday, Sunday
Weekdays == {0, 4, 5, 6}

StreamRates == 0..MaxStreamFps

\* a SlackApiError; RateLimited is the one whose response says "ratelimited"
SlackApiErrors == {"SlackApiError", "RateLimited"}

\* what client.files_upload does: returns, or raises one of these
UploadOutcomes == {"ok", "SlackApiError", "RateLimited", "RequestException",
                   "OSError"}

\* what client.chat_postMessage does: returns a response (ok or not), or raises
PostOutcomes == {"ok", "not_ok", "SlackApiError", "RateLimited",
                 "RequestException"}

VARIABLES
    pc,              \* where the program is
    previous,        \* monitor_loop: the baseline, or NoBaseline
    weight,          \* monitor_loop: the last sample read
    hour,            \* the wall clock at the last sample
    weekday,
    before,          \* the baseline the last sample was observed against
    lastKind,        \* what the last sample did: acquire, quiet, absorb, event
    prevKind,        \* what the sample before the last one did
    anchor,          \* the baseline at the start of the current run of
                     \* absorbed samples that each fell by less than
                     \* DELTA_WEIGHT; NoBaseline without a baseline
    mask,            \* self.mask is not None (an overlay is configured)
    num_timtams,     \* alert: its first argument, in hundredths
    previous_weight, \* alert: its second argument
    attempt,         \* record_gif calls of this alert cycle
    loads,           \* load_camera_url calls of this alert cycle
    cap,             \* the stream handle of record_gif
    stream_fps,      \* record_gif: stream_fps
    frames,          \* record_gif: frames
    images,          \* record_gif: len(images)
    recResult,       \* how the last record_gif call of this cycle ended
    posted,          \* the message handed to the Notifier in this cycle
    delivery,        \* what the Notifier call of this cycle did
    sends,           \* Notifier calls of this alert cycle
    reweighed,       \* alert: what the re-read of the scale returned
    gif,             \* what lies at /tmp/timtam-thief.gif
    exc              \* the exception that ended monitor_loop

vars == <<pc, previous, weight, hour, weekday, before, lastKind, prevKind,
          mask, num_timtams,
          previous_weight, attempt, loads, cap, stream_fps, frames, images,
          recResult, posted, delivery, exc, anchor, sends, reweighed, gif>>

loopVars == <<previous, weight, hour, weekday, before, lastKind, prevKind,
              anchor>>

alertArgs == <<num_timtams, previous_weight>>

recVars == <<cap, stream_fps, frames, images>>

(***************************************************************************)
(* Pure functions of the source.                                           *)
(***************************************************************************)
\* a variant of Quiet with each bound off by one
QuietOffByOne(h, d) == h > 18 \/ h < 4 \/ d > 5

\* hour >= 18 or hour <= 4 or weekday >= 5
Quiet(h, d) == h >= 18 \/ h <= 4 \/ d >= 5

\* round(x, 2) of x = delta / TIMTAM_WEIGHT, in hundredths: the nearest
\* integer to 100 * delta / 183.  No tie exists: 200 * delta is even and
\* 183 * (2k + 1) is odd.
Round2(delta) == (200 * delta + TIMTAM_WEIGHT) \div (2 * TIMTAM_WEIGHT)

\* timtam_change = round((previous - weight) / item, 2)
TimtamChange(prev, w) == Round2(prev - w)

\* a variant of IsTheft that takes any drop for a theft
IsTheftAnyDrop(change) == change > 0

\* a variant of IsTheft that compares the magnitude of the change
IsTheftEitherWay(change) ==
    change >= EventThreshold \/ -change >= EventThreshold

\* if timtam_change >= 0.85
IsTheft(change) == change >= EventThreshold

\* round(num_timtams): Python rounds a half to the even integer
PyRound(h) ==
    LET q == h \div 100
        r == h % 100
    IN  IF r < 50 THEN q
        ELSE IF r > 50 THEN q + 1
        ELSE IF q % 2 = 0 THEN q ELSE q + 1

\* a variant of WeightUnchanged without the tolerance
WeightNotBelow(prevw, w) == prevw <= w

\* previous_weight <= self.hx.get_weight(15) + DELTA_WEIGHT
WeightUnchanged(prevw, w) == prevw <= w + DELTA_WEIGHT

\* stream_fps // fps
Stride(sfps, fps) == sfps \div fps

\* "Timtams tampering detected! But the camera is disconnected..."
TextAlertMessage(n) ==
    [kind |-> "text", units |-> {}, camera_disconnected |-> TRUE]

\* f"Timtam tampering detected! Someone took {round(num_timtams)} Tim Tams!"
FileAlertMessage(n) ==
    [kind |-> "file", units |-> {PyRound(n)}, camera_disconnected |-> FALSE]

NoMessage == [kind |-> "none", units |-> {}, camera_disconnected |-> FALSE]

\* SlackBot.send_file: what leaves it when files_upload raises e.  The
\* handler evaluates e.response.get("error"): only a SlackApiError carries a
\* response with a get; a RequestException carries None or a
\* requests.Response, anything else no response at all.
SendFileRaises(e) == IF e \in SlackApiErrors THEN e ELSE "AttributeError"

\* alert: except SlackApiError -> logged; except RequestException ->
\* SystemExit; anything else leaves alert as it is
AlertFileHandler(e) ==
    CASE e \in SlackApiErrors -> "logged"
      [] e = "RequestException" -> "SystemExit"
      [] OTHER -> e

\* monitor_loop: except (KeyboardInterrupt, SystemExit) -> cleanup, return
LoopCatches(e) == e \in {"KeyboardInterrupt", "SystemExit"}

\* where an exception that reaches monitor_loop leaves the program
AfterException(e) == IF LoopCatches(e) THEN "stopped" ELSE "crashed"

\* a variant of BaselineAfterQuiet that leaves the baseline as it was
BaselineKeptInQuiet(w) == previous

\* the baseline after a sample in quiet hours: previous = None
BaselineAfterQuiet(w) == NoBaseline

\* the baseline after an absorbed sample: previous = weight
BaselineAfterSample(w) == w

\* a variant of BaselineAfterAlert that leaves the baseline as it was
BaselineKeptAfterAlert(w) == previous

\* the baseline after alert() returned: previous = None
BaselineAfterAlert(w) == NoBaseline

\* a variant of AfterCaptureFailure that goes on to the file alert when the
\* recovery's capture failed too
ProceedAfterFailure(n) == IF n = 1 THEN "recover" ELSE "reweigh"

\* a variant of AfterCaptureFailure that recovers after every failure
RecoverAgain(n) == "recover"

\* alert: where a failed record_gif call leads: the recovery after the
\* first, the text-only message after the second
AfterCaptureFailure(n) == IF n = 1 THEN "recover" ELSE "send_text"

Running == {"loop", "rec_open", "rec_loop", "recover", "reweigh",
            "send_text", "send_file", "alert_returned"}

Terminal == {"stopped", "crashed"}

(***************************************************************************)
(* The state after TimTamCam.__init__ and setup_scales, at the head of     *)
(* monitor_loop.                                                           *)
(***************************************************************************)
Init ==
    /\ pc = "loop"
    /\ previous = NoBaseline
    /\ weight = 0
    /\ hour = 5
    /\ weekday = 0
    /\ before = NoBaseline
    /\ lastKind = "start"
    /\ prevKind = "start"
    /\ mask \in BOOLEAN
    /\ num_timtams = 0
    /\ previous_weight = 0
    /\ attempt = 0
    /\ loads = 0
    /\ cap = "none"
    /\ stream_fps = 0
    /\ frames = 0
    /\ images = 0
    /\ recResult = "none"
    /\ posted = NoMessage
    /\ delivery = "none"
    /\ exc = "none"
    /\ anchor = NoBaseline
    /\ sends = 0
    /\ reweighed = NoBaseline
    /\ gif = "none"

\* the scratch file when a cycle is over: what a capture wrote is from now
\* on the gif of an earlier cycle
GifAfterCycle(g) == IF g = "none" THEN "none" ELSE "stale"

CycleReset ==
    /\ num_timtams' = 0
    /\ previous_weight' = 0
    /\ attempt' = 0
    /\ loads' = 0
    /\ cap' = "none"
    /\ stream_fps' = 0
    /\ frames' = 0
    /\ images' = 0
    /\ recResult' = "none"
    /\ posted' = NoMessage
    /\ delivery' = "none"
    /\ sends' = 0
    /\ reweighed' = NoBaseline

\* an exception e leaves monitor_loop's try block
Raise(e) ==
    /\ pc' = AfterException(e)
    /\ exc' = e

(***************************************************************************)
(* monitor_loop                                                            *)
(***************************************************************************)
\* one iteration of the while loop with a successful read
Sample ==
    /\ pc = "loop"
    /\ \E w \in Weights, h \in Hours, d \in Weekdays :
        /\ weight' = w
        /\ hour' = h
        /\ weekday' = d
        /\ before' = previous
        /\ prevKind' = lastKind
        /\ IF previous = NoBaseline
           THEN /\ previous' = BaselineAfterSample(w)
                /\ lastKind' = "acquire"
                /\ anchor' = w
                /\ pc' = "loop"
                /\ UNCHANGED alertArgs
           ELSE IF Quiet(h, d)
           THEN /\ previous' = BaselineAfterQuiet(w)
                /\ lastKind' = "quiet"
                /\ anchor' = NoBaseline
                /\ pc' = "loop"
                /\ UNCHANGED alertArgs
           ELSE IF IsTheft(TimtamChange(previous, w))
           THEN /\ previous' = previous
                /\ lastKind' = "event"
                /\ anchor' = NoBaseline
                /\ pc' = "rec_open"
                /\ num_timtams' = TimtamChange(previous, w)
                /\ previous_weight' = previous
           ELSE /\ previous' = BaselineAfterSample(w)
                /\ lastKind' = "absorb"
                /\ anchor' = IF 0 <= previous - w /\ previous - w < DELTA_WEIGHT
                              THEN anchor ELSE w
                /\ pc' = "loop"
                /\ UNCHANGED alertArgs
    /\ UNCHANGED <<mask, attempt, loads, recVars, recResult, posted,
                   delivery, exc, sends, reweighed, gif>>

\* self.hx.get_weight(15) raises at the head of an iteration
ReadFails ==
    /\ pc = "loop"
    /\ Raise("SensorError")
    /\ UNCHANGED <<loopVars, mask, alertArgs, attempt, loads, recVars,
                   recResult, posted, delivery, sends, reweighed, gif>>

\* alert() returned: previous = None; continue
AlertReturn ==
    /\ pc = "alert_returned"
    /\ previous' = BaselineAfterAlert(weight)
    /\ pc' = "loop"
    /\ CycleReset
    /\ gif' = GifAfterCycle(gif)
    /\ UNCHANGED <<weight, hour, weekday, before, lastKind, prevKind, anchor,
                   mask, exc>>

\* the operator interrupts the program, wherever it is
Interrupt ==
    /\ pc \in Running
    /\ Raise("KeyboardInterrupt")
    /\ UNCHANGED <<loopVars, mask, alertArgs, attempt, loads, recVars,
                   recResult, posted, delivery, sends, reweighed, gif>>

(***************************************************************************)
(* record_gif and camera_check                                             *)
(***************************************************************************)
\* what cap.read() hands back: a frame, ret False, frame None, frame.size 0
FrameOutcomes == {"good", "not_ret", "null", "empty"}

\* the exceptions record_gif raises; each is an Exception
RecordExceptions == {"ZeroDivisionError", "RuntimeError", "cv2.error",
                     "EncodeError"}

\* camera_check: not cap.isOpened() or not ret or frame is None
\*               or frame.size == 0
CameraCheckFails(opened, f) == ~opened \/ f /= "good"

\* while cap.isOpened() and len(images) < (duration * fps)
LoopContinues(c, n) == c = "open" /\ n < Duration * Fps

\* a variant of OnStride that selects the frame after each stride
OnStrideOffByOne(n, stride) == n % stride = 1

\* (frames % (stream_fps // fps)) == 0, the stride being at least 1
OnStride(n, stride) == n % stride = 0

\* what camera_check does to the handle when it fails: cap.release()
CapAfterFailedCheck(c) == "released"

\* what record_gif does to the handle when an exception leaves it from the
\* overlay, the encoding or the stride: nothing
CapAfterException(c) == c

\* record_gif raises e, and alert's except Exception catches it
RecordRaises(e) ==
    /\ recResult' = e
    /\ pc' = AfterCaptureFailure(attempt)

\* cap = cv2.VideoCapture(self.stream_url); stream_fps = int(cap.get(...))
RecordOpen ==
    /\ pc = "rec_open"
    /\ \E opened \in BOOLEAN, rate \in StreamRates :
        /\ cap' = IF opened THEN "open" ELSE "unopened"
        /\ stream_fps' = IF opened THEN rate ELSE 0
    /\ attempt' = attempt + 1
    /\ frames' = 0
    /\ images' = 0
    /\ recResult' = "running"
    /\ pc' = "rec_loop"
    /\ UNCHANGED <<loopVars, mask, alertArgs, loads, posted, delivery, exc,
                   sends, reweighed, gif>>

\* one iteration of the frame loop
RecordFrame ==
    /\ pc = "rec_loop"
    /\ LoopContinues(cap, images)
    /\ frames' = frames + 1
    /\ \E f \in FrameOutcomes, alive \in BOOLEAN, overlayOk \in BOOLEAN :
        LET now == IF alive THEN "open" ELSE "dropped"
            stride == Stride(stream_fps, Fps)
        IN  IF stride = 0
            THEN /\ cap' = CapAfterException(now)
                 /\ images' = images
                 /\ RecordRaises("ZeroDivisionError")
            ELSE IF ~OnStride(frames + 1, stride)
            THEN /\ cap' = now
                 /\ images' = images
                 /\ UNCHANGED <<recResult, pc>>
            ELSE IF CameraCheckFails(alive, f)
            THEN /\ cap' = CapAfterFailedCheck(now)
                 /\ images' = images
                 /\ RecordRaises("RuntimeError")
            ELSE IF mask /\ ~overlayOk
            THEN /\ cap' = CapAfterException(now)
                 /\ images' = images
                 /\ RecordRaises("cv2.error")
            ELSE /\ cap' = now
                 /\ images' = images + 1
                 /\ UNCHANGED <<recResult, pc>>
    /\ UNCHANGED <<loopVars, mask, alertArgs, attempt, loads, stream_fps,
                   posted, delivery, exc, sends, reweighed, gif>>

\* after the loop: imageio.mimsave, optimize, cap.release().  Whether the
\* encoder and the optimiser accept the frames (an empty list included) is
\* the libraries' answer: either outcome is possible.  A failed encoding
\* leaves the scratch file as it was or broken.
RecordEnd ==
    /\ pc = "rec_loop"
    /\ ~LoopContinues(cap, images)
    /\ \E encoded \in BOOLEAN, written \in BOOLEAN :
        IF encoded
        THEN /\ cap' = "released"
             /\ gif' = "fresh"
             /\ recResult' = "returned"
             /\ pc' = "reweigh"
        ELSE /\ cap' = CapAfterException(cap)
             /\ gif' = IF written THEN "broken" ELSE gif
             /\ RecordRaises("EncodeError")
    /\ UNCHANGED <<loopVars, mask, alertArgs, attempt, loads, stream_fps,
                   frames, images, posted, delivery, exc, sends, reweighed>>

(***************************************************************************)
(* alert                                                                   *)
(***************************************************************************)
\* the recovery: self.load_camera_url(), which raises when the camera is
\* not found, and then the second record_gif
Recover ==
    /\ pc = "recover"
    /\ loads' = loads + 1
    /\ \E found \in BOOLEAN :
        pc' = IF found THEN "rec_open" ELSE "send_text"
    /\ UNCHANGED <<loopVars, mask, alertArgs, attempt, recVars, recResult,
                   posted, delivery, exc, sends, reweighed, gif>>

\* except Exception: self.send_message(...); return.  The call stands in a
\* handler, outside any try: what chat_postMessage raises leaves alert.
SendText ==
    /\ pc = "send_text"
    /\ posted' = TextAlertMessage(num_timtams)
    /\ \E o \in PostOutcomes :
        /\ delivery' = o
        /\ IF o \in {"ok", "not_ok"}
           THEN pc' = "alert_returned" /\ exc' = exc
           ELSE Raise(o)
    /\ sends' = sends + 1
    /\ UNCHANGED <<loopVars, mask, alertArgs, attempt, loads, recVars,
                   recResult, reweighed, gif>>

\* if previous_weight <= self.hx.get_weight(15) + DELTA_WEIGHT: return
Reweigh ==
    /\ pc = "reweigh"
    /\ \E w \in Weights :
        /\ reweighed' = w
        /\ pc' = IF WeightUnchanged(previous_weight, w)
                 THEN "alert_returned" ELSE "send_file"
    /\ UNCHANGED <<loopVars, mask, alertArgs, attempt, loads, recVars,
                   recResult, posted, delivery, exc, sends, gif>>

\* self.hx.get_weight(15) raises inside alert, outside any try
ReweighFails ==
    /\ pc = "reweigh"
    /\ Raise("SensorError")
    /\ UNCHANGED <<loopVars, mask, alertArgs, attempt, loads, recVars,
                   recResult, posted, delivery, sends, reweighed, gif>>

\* try: self.send_file(...) except SlackApiError ... except RequestException
SendFile ==
    /\ pc = "send_file"
    /\ posted' = FileAlertMessage(num_timtams)
    /\ \E o \in UploadOutcomes :
        /\ delivery' = o
        /\ LET handled == IF o = "ok" THEN "logged"
                          ELSE AlertFileHandler(SendFileRaises(o))
           IN  IF handled = "logged"
               THEN pc' = "alert_returned" /\ exc' = exc
               ELSE Raise(handled)
    /\ sends' = sends + 1
    /\ UNCHANGED <<loopVars, mask, alertArgs, attempt, loads, recVars,
                   recResult, reweighed, gif>>

Next ==
    \/ Sample
    \/ ReadFails
    \/ AlertReturn
    \/ Interrupt
    \/ RecordOpen
    \/ RecordFrame
    \/ RecordEnd
    \/ Recover
    \/ SendText
    \/ Reweigh
    \/ ReweighFails
    \/ SendFile

Spec == Init /\ [][Next]_vars

(***************************************************************************)
(* The claims.                                                             *)
(***************************************************************************)
\* the Notifier outcomes that are delivery failures
DeliveryFailures == {"not_ok", "SlackApiError", "RateLimited",
                     "RequestException", "OSError"}

\* the alerting phase: from the event to the return of alert()
Alerting == Running \ {"loop"}

\* the quiet-hours predicate on the wall clock of the last sample
QuietHours == hour >= 18 \/ hour <= 4 \/ weekday >= 5

\* a sample has been observed
Sampled == lastKind /= "start"

\* C1: whatever the Notifier call of an alert does (success, Slack API
\* error, network error), in the file path and in the text-only path, no
\* exception and no SystemExit leaves alert(): the only thing that may end
\* the loop after a delivery is the operator's interrupt.
C1_DeliveryFailureNeverPropagates ==
    delivery \in DeliveryFailures => exc \in {"none", "KeyboardInterrupt"}

\* C2: whenever a record_gif call has exited, by return or by exception, the
\* stream handle it opened is no longer open.
C2_HandleReleasedOnExit ==
    recResult \in {"returned"} \cup RecordExceptions => cap /= "open"

\* C3: an alert cycle makes at most two record_gif calls and at most one
\* load_camera_url call; the recovery starts only after the first capture
\* failed, the second capture only after the one re-resolution, and after a
\* failed re-resolution or a failed second capture no capture follows.
C3_AtMostOneRetry ==
    /\ attempt \in 0..2
    /\ loads \in 0..1
    /\ attempt = 2 => loads = 1
    /\ pc = "recover" =>
          attempt = 1 /\ loads = 0 /\ recResult \in RecordExceptions
    /\ (pc = "rec_open" /\ attempt = 1) =>
          loads = 1 /\ recResult \in RecordExceptions
    /\ (attempt = 1 /\ loads = 1 /\ pc /= "rec_open") =>
          pc \in {"send_text", "alert_returned"} \cup Terminal
    /\ (attempt = 2 /\ recResult \in RecordExceptions) =>
          pc \in {"send_text", "alert_returned"} \cup Terminal

\* C3 witness: both captures of a cycle failed, with one re-resolution
\* between them, and the cycle has gone on to the text-only message.
C3_Witness ==
    /\ attempt = 2
    /\ loads = 1
    /\ recResult \in RecordExceptions
    /\ pc = "send_text"

\* C4: the text-only message sent after both captures failed holds the
\* rounded unit count of the event and the camera-unreachable marker, and
\* sending it raises nothing.
C4_TextAlertCarriesUnits ==
    posted.kind = "text" =>
        /\ posted.units = {PyRound(num_timtams)}
        /\ posted.camera_disconnected
        /\ exc \in {"none", "KeyboardInterrupt"}

\* C5: a sensor read that raises at the head of a tick (outside an alert
\* cycle) does not end the loop: the program is still at the head of the
\* loop, the baseline untouched.
C5_ReadFailureSkipsTick ==
    (exc = "SensorError" /\ attempt = 0) => pc = "loop"

\* C6: once an event has started the alerting phase, nothing but the
\* operator's interrupt ends the loop.
C6_OnlyInterruptEndsAlerting ==
    (attempt >= 1 /\ pc \in Terminal) => exc = "KeyboardInterrupt"

\* C7: after an event the baseline is cleared when alert() has returned, and
\* the sample that follows an event emits no event: it re-acquires the
\* baseline.
C7_NoEventRightAfterEvent ==
    /\ (pc = "loop" /\ lastKind = "event") => previous = NoBaseline
    /\ prevKind = "event" =>
          /\ lastKind = "acquire"
          /\ before = NoBaseline
          /\ previous = weight
          /\ attempt = 0

\* C7 witness: the sample after an event has been observed and became the
\* baseline.
C7_Witness ==
    /\ prevKind = "event"
    /\ lastKind = "acquire"
    /\ previous = weight
    /\ pc = "loop"

\* C8: a sample observed in quiet hours emits no event and starts no alert,
\* whatever the baseline and the drop.
C8_NoEventInQuietHours ==
    (Sampled /\ QuietHours) =>
        /\ lastKind /= "event"
        /\ pc \notin Alerting
        /\ attempt = 0

\* C8 witness: a drop of more than one Tim Tam was observed in quiet hours.
C8_Witness ==
    /\ QuietHours
    /\ lastKind = "quiet"
    /\ before - weight > TIMTAM_WEIGHT
    /\ pc = "loop"

\* C9 as stated: after a sample observed in quiet hours the baseline equals
\* that sample.
C9_QuietSampleIsBaseline ==
    (Sampled /\ QuietHours) => previous = weight

\* C9 as amended: after a sample observed in quiet hours the baseline is
\* never left at the older value: it is cleared when there was a baseline,
\* and it is that sample when there was none.
C9_QuietSampleClearsOrAcquires ==
    (Sampled /\ QuietHours) =>
        previous = (IF before = NoBaseline THEN weight ELSE NoBaseline)

\* C9 witness: a sample in quiet hours met a baseline and cleared it.
C9_Witness ==
    /\ QuietHours
    /\ Sampled
    /\ before /= NoBaseline
    /\ before /= weight
    /\ previous = NoBaseline

\* C10 as stated: a sample at or above the baseline emits no event and
\* becomes the new baseline.
C10_IncreaseBecomesBaseline ==
    (Sampled /\ before /= NoBaseline /\ weight >= before) =>
        /\ lastKind /= "event"
        /\ previous = weight

\* C10 as amended: a sample at or above the baseline emits no event; outside
\* quiet hours it becomes the new baseline, in quiet hours the baseline is
\* cleared.
C10_IncreaseNeverEmits ==
    (Sampled /\ before /= NoBaseline /\ weight >= before) =>
        /\ lastKind /= "event"
        /\ attempt = 0
        /\ previous = (IF QuietHours THEN NoBaseline ELSE weight)

\* C10 witness: outside quiet hours the weight rose by more than one Tim Tam
\* and the sample became the baseline.
C10_Witness ==
    /\ ~QuietHours
    /\ before /= NoBaseline
    /\ weight - before > TIMTAM_WEIGHT
    /\ lastKind = "absorb"
    /\ previous = weight

\* the last sample met a baseline and lies below it by less than the noise
\* floor of 10 g
BelowNoiseFloor ==
    /\ Sampled
    /\ before /= NoBaseline
    /\ 0 < before - weight
    /\ before - weight < DELTA_WEIGHT

\* C11 as stated: a sample below the baseline by less than the noise floor
\* emits no event and is absorbed as the new baseline, however far the
\* baseline has drifted.
C11_DriftAbsorbed ==
    BelowNoiseFloor =>
        /\ lastKind /= "event"
        /\ attempt = 0
        /\ previous = weight

\* C11 as amended: a sample below the baseline by less than the noise floor
\* emits no event, however far the baseline has drifted; outside quiet hours
\* it is absorbed as the new baseline, in quiet hours the baseline is
\* cleared.
C11_DriftNeverEmits ==
    BelowNoiseFloor =>
        /\ lastKind /= "event"
        /\ attempt = 0
        /\ pc \notin Alerting
        /\ previous = (IF QuietHours THEN NoBaseline ELSE weight)

\* C11 witness: a run of samples, each below the baseline by less than the
\* noise floor, has taken the baseline down by more than one Tim Tam, and
\* the last of them was absorbed.
C11_Witness ==
    /\ BelowNoiseFloor
    /\ lastKind = "absorb"
    /\ prevKind = "absorb"
    /\ anchor - weight > TIMTAM_WEIGHT
    /\ previous = weight

\* C12: in allowed hours a sample whose unrounded ratio
\* delta / TIMTAM_WEIGHT is strictly below 0.85 emits no event and becomes
\* the new baseline, the ratios in [0.845, 0.85) included.
C12_UnroundedThreshold ==
    (/\ Sampled
     /\ ~QuietHours
     /\ before /= NoBaseline
     /\ 100 * (before - weight) < EventThreshold * TIMTAM_WEIGHT) =>
        /\ lastKind /= "event"
        /\ previous = weight

\* C13 as stated: an alert cycle whose capture succeeded sends the evidence
\* file: alert does not return from it without a send_file attempt.  Stated
\* for the captures that accepted all their frames.
C13_CaptureLeadsToSendFile ==
    (/\ pc = "alert_returned"
     /\ recResult = "returned"
     /\ images = Duration * Fps) => posted.kind = "file"

\* C13 as amended: an alert cycle whose capture succeeded sends the evidence
\* file, with the message as caption, exactly when the weight re-read after
\* the recording is more than 10 g below the previous weight; otherwise
\* alert returns without sending anything.
C13_FileSentUnlessWeightBack ==
    /\ pc = "send_file" =>
          /\ recResult = "returned"
          /\ reweighed /= NoBaseline
          /\ previous_weight > reweighed + DELTA_WEIGHT
    /\ (recResult = "returned" /\ reweighed = NoBaseline) => sends = 0
    /\ (/\ recResult = "returned"
        /\ reweighed /= NoBaseline
        /\ pc /= "send_file"
        /\ exc /= "KeyboardInterrupt") =>
          IF previous_weight > reweighed + DELTA_WEIGHT
          THEN /\ sends = 1
               /\ posted.kind = "file"
               /\ posted.units = {PyRound(num_timtams)}
          ELSE /\ sends = 0
               /\ posted = NoMessage
               /\ pc = "alert_returned"

\* C13 witness: the capture succeeded, the weight was still down, and the
\* file went out with the unit count.
C13_Witness ==
    /\ pc = "alert_returned"
    /\ recResult = "returned"
    /\ images = Duration * Fps
    /\ posted.kind = "file"
    /\ delivery = "ok"
    /\ sends = 1

\* C14: every event handed to alert() has a positive number of units.
C14_EventUnitsPositive ==
    (pc \in Alerting \/ attempt >= 1) =>
        /\ num_timtams > 0
        /\ previous_weight > weight

\* C14 witness: an event with the smallest number of units, 0.85, has
\* started an alert.
C14_Witness ==
    /\ pc = "rec_open"
    /\ lastKind = "event"
    /\ num_timtams = EventThreshold

\* C15: a rate-limited delivery is retried: alert does not give the alert up
\* and return before a further send attempt was made.
C15_RateLimitedIsRetried ==
    (delivery = "RateLimited" /\ pc = "alert_returned") => sends >= 2

\* C16: when the operator's interrupt has ended monitor_loop, no stream
\* handle is left open, wherever in the recording it arrived.
C16_InterruptReleasesHandle ==
    (pc = "stopped" /\ exc = "KeyboardInterrupt") => cap /= "open"

\* C17: a record_gif call that returned normally accepted exactly
\* duration * fps frames.  Stated for the calls that accepted at least one
\* frame, where the encoder's answer to an empty list plays no part.
C17_NoShortGif ==
    (recResult = "returned" /\ images >= 1) => images = Duration * Fps

\* C18: whatever native rate the opened stream reports, the stride of the
\* frame loop is at least 1 and the frame selection never divides by zero.
C18_StrideAtLeastOne ==
    /\ (pc = "rec_loop" /\ cap = "open") => stream_fps \div Fps >= 1
    /\ recResult /= "ZeroDivisionError"

\* C19: the evidence file is sent only in a cycle in which a record_gif call
\* of that cycle returned normally, so the file on the scratch path is the
\* one this cycle wrote, never the one an earlier cycle left there.
C19_FileAlertHasOwnGif ==
    (pc = "send_file" \/ posted.kind = "file") =>
        /\ recResult = "returned"
        /\ gif = "fresh"
        /\ attempt \in 1..2

\* C19 witness: the first capture of a cycle failed, the recovery's capture
\* returned, and the file it wrote was sent.
C19_Witness ==
    /\ posted.kind = "file"
    /\ attempt = 2
    /\ loads = 1
    /\ recResult = "returned"
    /\ images = Duration * Fps
    /\ gif = "fresh"

\* the steps of an alert cycle, the operator's interrupt aside
AlertStep ==
    \/ RecordOpen
    \/ RecordFrame
    \/ RecordEnd
    \/ Recover
    \/ SendText
    \/ Reweigh
    \/ ReweighFails
    \/ SendFile
    \/ AlertReturn

\* the frame reads a record_gif call may make at the native rate r
ReadBound(r) ==
    IF r \div Fps = 0 THEN 1 ELSE Duration * Fps * (r \div Fps)

\* C20: a record_gif call makes a bounded number of frame reads, whatever
\* the stream does: in the frame loop every stride-th read either adds an
\* image or raises, the loop is never without a next step, and a call that
\* is over made at most ReadBound reads.  An alert cycle makes at most two
\* calls and always has a next step.
C20_RecordTerminates ==
    /\ pc = "rec_loop" =>
          /\ images <= Duration * Fps
          /\ frames < ReadBound(stream_fps)
                \/ (frames = ReadBound(stream_fps) /\ ~LoopContinues(cap, images))
          /\ stream_fps \div Fps >= 1 =>
                frames < (images + 1) * (stream_fps \div Fps)
          /\ ENABLED (RecordFrame \/ RecordEnd)
    /\ recResult \in {"returned"} \cup RecordExceptions =>
          frames <= ReadBound(stream_fps)
    /\ pc \in Alerting => (attempt <= 2 /\ ENABLED AlertStep)

\* C20 witness: a call at the highest native rate returned after the most
\* reads it can make.
C20_Witness ==
    /\ recResult = "returned"
    /\ stream_fps = MaxStreamFps
    /\ frames = ReadBound(MaxStreamFps)
    /\ images = Duration * Fps

=============================================================================
